---- MODULE Spec2Model ----
(***************************************************************************)
(* Model of the YouTube AI Chat repository.                                *)
(*                                                                         *)
(* Ingestion: the server actions requestIngestion and retryFailedVideo     *)
(* (scope-context.tsx) write Video rows and emit "youtube/ingest" events;  *)
(* the workflow function ingestVideo (api/inngest/route.ts) runs once per  *)
(* event, step by step, against the videos table and the per-video index   *)
(* collection.  Retrieval: the chat and compose handlers query one         *)
(* collection per scoped video, pool, rank and truncate the results.       *)
(*                                                                         *)
(* Environment.  The database applies every write atomically and enforces  *)
(* UNIQUE(youtube_id, profileId).  The index rejects a second collection   *)
(* or document of the same name with an "already exists" error.  The       *)
(* workflow runner starts one run per emitted event and may start a failed *)
(* run again from its first step.  In Spec, sending an event succeeds.     *)
(* Every await of the source is a separate step, so that calls and runs    *)
(* interleave at exactly the points where the code yields.                 *)
(***************************************************************************)
EXTENDS Integers, Sequences, FiniteSets, Bags, TLC

(***************************************************************************)
(* Bounds of the model.                                                    *)
(***************************************************************************)
MaxRows == 3
MaxAttempts == 2
MaxFaults == 1
\* scoped videos of one retrieval request; up to RichScope of them answer with
\* every response of the menu, more than RichScope only with two
MaxScope == 10
RichScope == 3

\* the calls and runs that may be in progress at once
RequestCalls == 1..1
ConcurrentRequestCalls == 1..3
RetryCalls == 1..2
RunSlots == 1..2

(***************************************************************************)
(* Program constants.                                                      *)
(***************************************************************************)
ChunkSize == 10
\* a result's score is optional: the value standing for "no score"
Undefined == -1

YoutubeIds == {"y1", "y2"}
Channel == <<"y1", "y2">>

NoReason == "null"
Statuses == {"QUEUED", "PROCESSING", "READY", "FAILED"}

Max(a, b) == IF a >= b THEN a ELSE b
Min(a, b) == IF a <= b THEN a ELSE b

(***************************************************************************)
(* Transcript acquisition: the segments the adapter returns for a source   *)
(* video (text, offset ms, duration ms).                                   *)
(***************************************************************************)
\* "y0" is a video whose transcript has no segment
SegmentCount(youtubeId) ==
  IF youtubeId = "y1" THEN 11 ELSE IF youtubeId = "y0" THEN 0 ELSE 1

Transcript(youtubeId) ==
  [i \in 1..SegmentCount(youtubeId) |->
     [text |-> i, offset |-> (i - 1) * 1234, duration |-> 1000]]

(***************************************************************************)
(* chunkTranscript                                                         *)
(***************************************************************************)
RECURSIVE JoinTexts(_)
JoinTexts(segs) ==
  IF Len(segs) = 0 THEN <<>>
  ELSE IF Len(segs) = 1 THEN <<segs[1].text>>
  ELSE <<segs[1].text, " ">> \o JoinTexts(Tail(segs))

\* the tenths digit cut off instead of rounded
Truncate1(ms) == ms \div 100

\* Number.prototype.toFixed(1) of ms/1000, in tenths of a second
ToFixed1(ms) == (ms + 50) \div 100

\* the end of a passage taken to be the start of its last segment
EndTimeWithoutDuration(lastSegment) == lastSegment.offset

\* endTime = (lastSegment.offset + lastSegment.duration) / 1000, kept in thousandths
EndTime(lastSegment) == lastSegment.offset + lastSegment.duration

ChunkPath(videoId, i, startMs) ==
  [videoId |-> videoId, index |-> i, tenths |-> ToFixed1(startMs)]

RECURSIVE ChunkFrom(_, _, _, _)
ChunkFrom(transcript, videoId, chunkSize, i) ==
  IF i >= Len(transcript) THEN <<>>
  ELSE LET segmentGroup == SubSeq(transcript, i + 1, Min(i + chunkSize, Len(transcript)))
           lastSegment == segmentGroup[Len(segmentGroup)]
       IN  << [text |-> JoinTexts(segmentGroup),
               startTime |-> segmentGroup[1].offset,
               endTime |-> EndTime(lastSegment),
               path |-> ChunkPath(videoId, i, segmentGroup[1].offset)] >>
           \o ChunkFrom(transcript, videoId, chunkSize, i + chunkSize)

\* a loop that stops at the last full group: i + chunkSize <= transcript.length
chunkTranscriptWholeGroups(transcript, videoId, chunkSize) ==
  ChunkFrom(SubSeq(transcript, 1, (Len(transcript) \div chunkSize) * chunkSize),
            videoId, chunkSize, 0)

chunkTranscript(transcript, videoId, chunkSize) ==
  ChunkFrom(transcript, videoId, chunkSize, 0)

\* one collection for every video
getCollectionNameShared(videoId) == <<"video", 0>>

\* `video-${videoId}`
getCollectionName(videoId) == <<"video", videoId>>


(***************************************************************************)
(* State.                                                                  *)
(*   videos      the videos table of one profile; a row's id is its index  *)
(*   events      "youtube/ingest" events emitted and not yet run, per id   *)
(*   sends       events emitted by requestIngestion, per video id          *)
(*   requests    calls of requestIngestion                                 *)
(*   retries     calls of retryFailedVideo                                 *)
(*   runs        executions of ingestVideo                                 *)
(*   collections the index's collections                                   *)
(*   documents   the index's documents, a bag of (collection, path)        *)
(*   faults      failures injected so far                                  *)
(*   chat        one retrieval request (chat or compose handler)           *)
(*   content     the content of the message that is rendered and exported  *)
(*   render      one rendering of content by CitationRenderer              *)
(*   convert     one conversion of content by the export's convertCitations*)
(*   chunking    one call of chunkTranscript and the parsing of its paths   *)
(*   stream      the streamText call of one chat request                    *)
(*   store       the conversations, links and messages tables               *)
(***************************************************************************)
VARIABLES videos, events, sends, requests, retries, runs,
          collections, documents, faults, chat, content, render, convert,
          chunking, stream, store

ingestVars == <<videos, events, sends, requests, retries, runs,
                collections, documents, faults>>
\* the state of the pages and routes that take no part in ingestion or retrieval
otherVars == <<content, render, convert, chunking, stream, store>>
vars == <<videos, events, sends, requests, retries, runs,
          collections, documents, faults, chat, otherVars>>

VideoIds == 1..MaxRows
Rows == 1..Len(videos)

IdleRequest == [kind |-> "none", pc |-> "idle", idx |-> 0, youtubeId |-> "none",
                newVideo |-> 0, ingestedCount |-> 0, skippedCount |-> 0,
                message |-> "none"]
IdleRetry == [pc |-> "idle", videoId |-> 0, status |-> "none", sent |-> 0,
              success |-> FALSE]
IdleRun == [pc |-> "idle", videoId |-> 0, youtubeId |-> "none", attempt |-> 0,
            transcript |-> <<>>, title |-> "none", chunks |-> <<>>,
            embeddedCount |-> 0, existing |-> 0,
            errorMessage |-> NoReason, failedStep |-> 0]
IdleChat == [pc |-> "idle", handler |-> "none", scopedVideoIds |-> <<>>,
             chunksPerVideo |-> 0, query |-> <<>>, responses |-> <<>>,
             allResults |-> <<>>, sortedResults |-> <<>>, topResults |-> <<>>,
             context |-> <<>>, status |-> 0]

\* citation-renderer.tsx: elements = [], lastIndex = 0, citationCounter = 1
IdleRender == [pc |-> "loop", lastIndex |-> 0, citationCounter |-> 1,
               elements |-> <<>>, matches |-> <<>>]

\* convertCitations: citationCounter = 1; the scan of text.replace starts at 0
IdleConvert == [pc |-> "loop", lastIndex |-> 0, citationCounter |-> 1,
                output |-> <<>>, matches |-> <<>>]

IdleChunking == [pc |-> "idle", transcript |-> <<>>, videoId |-> 0, chunkSize |-> ChunkSize,
                 chunks |-> <<>>, context |-> <<>>]

IdleStream == [pc |-> "idle", conversationId |-> "none", messages |-> 0, tokens |-> 0,
               finished |-> FALSE, text |-> 0, activeConversationId |-> "none"]

\* conversations, _ConversationToVideo and messages, empty before the request
EmptyStore == [conversations |-> {}, links |-> {}, messages |-> <<>>, touched |-> {}]

OthersIdle ==
  /\ content = <<>>
  /\ render = IdleRender
  /\ convert = IdleConvert
  /\ chunking = IdleChunking
  /\ stream = IdleStream
  /\ store = EmptyStore

(***************************************************************************)
(* The videos table.                                                       *)
(***************************************************************************)
\* UNIQUE(youtube_id, "profileId"): the insert is rejected with code 23505
UniqueViolation(youtubeId) ==
  \E v \in Rows : videos[v].youtube_id = youtubeId

\* .select("id").eq("youtube_id", youtubeId).eq("profileId", profileId).single()
ExistingVideo(youtubeId) ==
  \E v \in Rows : videos[v].youtube_id = youtubeId

NewRow(youtubeId) ==
  [youtube_id |-> youtubeId, title |-> "Fetching title...",
   status |-> "QUEUED", failure_reason |-> NoReason]

\* the update without its filter: .update(fields) changes every row
UpdateAllRows(videoId, fields) ==
  [w \in DOMAIN videos |->
     [f \in DOMAIN videos[w] |->
        IF f \in DOMAIN fields THEN fields[f] ELSE videos[w][f]]]

\* .update(fields).eq("id", videoId)
UpdateRow(videoId, fields) ==
  [videos EXCEPT ![videoId] =
     [f \in DOMAIN videos[videoId] |->
        IF f \in DOMAIN fields THEN fields[f] ELSE videos[videoId][f]]]

\* inngest.send({ name: "youtube/ingest", data: { videoId, youtubeId } })
Send(videoId) == [events EXCEPT ![videoId] = @ + 1]

(***************************************************************************)
(* requestIngestion, single video URL                                      *)
(***************************************************************************)
\* an upsert in place of the insert: a duplicate returns the existing row
UpsertVideo(youtubeId) ==
  IF UniqueViolation(youtubeId)
  THEN [error |-> FALSE, id |-> CHOOSE v \in Rows : videos[v].youtube_id = youtubeId]
  ELSE IF Len(videos) >= MaxRows THEN [error |-> TRUE, id |-> 0]
  ELSE [error |-> FALSE, id |-> Len(videos) + 1]

\* .insert({...}).select("id, youtube_id").single(): the error or the new row's id
InsertVideo(youtubeId) ==
  IF UniqueViolation(youtubeId) \/ Len(videos) >= MaxRows
  THEN [error |-> TRUE, id |-> 0]
  ELSE [error |-> FALSE, id |-> Len(videos) + 1]

Inserted(result, youtubeId) ==
  IF result.id = Len(videos) + 1 THEN Append(videos, NewRow(youtubeId)) ELSE videos

RequestSingleInsert(q, youtubeId) ==
  /\ requests[q].pc = "idle"
  /\ \A q2 \in 1..(q - 1) : requests[q2].pc # "idle"
  /\ LET result == InsertVideo(youtubeId)
     IN  /\ videos' = Inserted(result, youtubeId)
         /\ requests' = [requests EXCEPT ![q] =
               IF result.error
               THEN [@ EXCEPT !.kind = "single", !.youtubeId = youtubeId,
                              !.pc = "done", !.message = "Error"]
               ELSE [@ EXCEPT !.kind = "single", !.youtubeId = youtubeId,
                              !.pc = "send", !.newVideo = result.id]]
  /\ UNCHANGED <<events, sends, retries, runs, collections, documents, faults, chat, otherVars>>

(***************************************************************************)
(* requestIngestion, channel URL: one select, insert and send per video    *)
(***************************************************************************)
BatchNext(req) ==
  [req EXCEPT !.idx = @ + 1,
              !.pc = IF req.idx + 1 > Len(Channel) THEN "done" ELSE "select",
              !.message = IF req.idx + 1 > Len(Channel) THEN "Success" ELSE @]

RequestBatchBegin(q) ==
  /\ requests[q].pc = "idle"
  /\ \A q2 \in 1..(q - 1) : requests[q2].pc # "idle"
  /\ requests' = [requests EXCEPT ![q] =
        [@ EXCEPT !.kind = "batch", !.pc = "select", !.idx = 1]]
  /\ UNCHANGED <<videos, events, sends, retries, runs, collections, documents, faults, chat, otherVars>>

RequestBatchSelect(q) ==
  LET req == requests[q]
      youtubeId == Channel[req.idx]
  IN  /\ req.pc = "select"
      /\ requests' = [requests EXCEPT ![q] =
            IF ExistingVideo(youtubeId)
            THEN BatchNext([req EXCEPT !.skippedCount = @ + 1])
            ELSE [req EXCEPT !.pc = "insert", !.youtubeId = youtubeId]]
      /\ UNCHANGED <<videos, events, sends, retries, runs, collections, documents, faults, chat, otherVars>>

RequestBatchInsert(q) ==
  LET req == requests[q]
      result == InsertVideo(req.youtubeId)
  IN  /\ req.pc = "insert"
      /\ videos' = Inserted(result, req.youtubeId)
      /\ requests' = [requests EXCEPT ![q] =
            IF result.error
            THEN BatchNext(req)
            ELSE [req EXCEPT !.pc = "send", !.newVideo = result.id]]
      /\ UNCHANGED <<events, sends, retries, runs, collections, documents, faults, chat, otherVars>>

AfterSend(req) ==
  IF req.kind = "single"
  THEN [req EXCEPT !.pc = "done", !.message = "Success"]
  ELSE BatchNext([req EXCEPT !.ingestedCount = @ + 1])

RequestSend(q) ==
  LET req == requests[q]
  IN  /\ req.pc = "send"
      /\ events' = Send(req.newVideo)
      /\ sends' = [sends EXCEPT ![req.newVideo] = @ + 1]
      /\ requests' = [requests EXCEPT ![q] = AfterSend(req)]
      /\ UNCHANGED <<videos, retries, runs, collections, documents, faults, chat, otherVars>>

(***************************************************************************)
(* retryFailedVideo                                                        *)
(***************************************************************************)
\* the status check left out
RetryNeverRejected(status) == FALSE

\* if (video.status !== "FAILED") throw
RetryRejected(status) == status # "FAILED"

RetryFields == [status |-> "QUEUED", failure_reason |-> NoReason]

RetrySelect(c, videoId) ==
  /\ retries[c].pc = "idle"
  /\ \A c2 \in 1..(c - 1) : retries[c2].pc # "idle"
  /\ videoId \in Rows
  /\ retries' = [retries EXCEPT ![c] =
        [@ EXCEPT !.videoId = videoId, !.status = videos[videoId].status,
                  !.pc = IF RetryRejected(videos[videoId].status)
                         THEN "done" ELSE "update"]]
  /\ UNCHANGED <<videos, events, sends, requests, runs, collections, documents, faults, chat, otherVars>>

RetryUpdate(c) ==
  /\ retries[c].pc = "update"
  /\ videos' = UpdateRow(retries[c].videoId, RetryFields)
  /\ retries' = [retries EXCEPT ![c] = [@ EXCEPT !.pc = "send"]]
  /\ UNCHANGED <<events, sends, requests, runs, collections, documents, faults, chat, otherVars>>

RetrySend(c) ==
  /\ retries[c].pc = "send"
  /\ events' = Send(retries[c].videoId)
  /\ retries' = [retries EXCEPT ![c] =
        [@ EXCEPT !.pc = "done", !.sent = @ + 1, !.success = TRUE]]
  /\ UNCHANGED <<videos, sends, requests, runs, collections, documents, faults, chat, otherVars>>


(***************************************************************************)
(* The index (collections.add, documents.add).  A result is "ok",          *)
(* "exists" (the index answers 409 "already exists") or "error" (any       *)
(* other failure, injected while faults < MaxFaults).                      *)
(***************************************************************************)
CanFail == faults < MaxFaults

CollectionsAdd(name) ==
  IF name \in collections THEN {"exists"}
  ELSE {"ok"} \cup (IF CanFail THEN {"error"} ELSE {})

DocumentsAdd(doc) ==
  IF BagIn(doc, documents) THEN {"exists"}
  ELSE {"ok"} \cup (IF CanFail THEN {"error"} ELSE {})

Fault(result) == IF result = "error" THEN faults + 1 ELSE faults

IndexError(result) ==
  IF result = "exists" THEN "already exists" ELSE "index error"

\* errorMessage.includes('already exists')
CollectionTolerated(result) == result = "exists"

\* the duplicate-document error thrown on like any other
DocumentNotTolerated(result) == FALSE

\* every error of documents.add skipped, whatever it is
DocumentAnyTolerated(result) == TRUE

\* errorMessage.includes('already exists') || errorStatus === 409
DocumentTolerated(result) == result = "exists"

(***************************************************************************)
(* ingestVideo: one action per step.run; embed-chunks one per document     *)
(***************************************************************************)
Executing == {"processing", "fetch", "chunk", "collection", "embed", "details", "catch"}

\* a step inside the try block raises: control passes to the catch block
Raise(run, step, message) ==
  [run EXCEPT !.pc = "catch", !.failedStep = step, !.errorMessage = message]

FreshRun(videoId, youtubeId, attempt) ==
  [IdleRun EXCEPT !.pc = "processing", !.videoId = videoId,
                  !.youtubeId = youtubeId, !.attempt = attempt]

\* the runner invokes the function for an emitted event
RunStart(r, videoId) ==
  /\ runs[r].pc = "idle"
  /\ \A r2 \in 1..(r - 1) : runs[r2].pc # "idle"
  /\ events[videoId] > 0
  /\ events' = [events EXCEPT ![videoId] = @ - 1]
  /\ runs' = [runs EXCEPT ![r] = FreshRun(videoId, videos[videoId].youtube_id, 1)]
  /\ UNCHANGED <<videos, sends, requests, retries, collections, documents, faults, chat, otherVars>>

\* the runner invokes the function again after it threw
RunAgain(r) ==
  /\ runs[r].pc = "thrown"
  /\ runs[r].attempt < MaxAttempts
  /\ runs' = [runs EXCEPT ![r] = FreshRun(@.videoId, @.youtubeId, @.attempt + 1)]
  /\ UNCHANGED <<videos, events, sends, requests, retries, collections, documents, faults, chat, otherVars>>

ProcessingFields == [status |-> "PROCESSING"]

\* step 1, "update-status-to-processing", outside the try block
UpdateStatusToProcessing(r) ==
  /\ runs[r].pc = "processing"
  /\ \E ok \in {TRUE} \cup (IF CanFail THEN {FALSE} ELSE {}) :
       IF ok
       THEN /\ videos' = UpdateRow(runs[r].videoId, ProcessingFields)
            /\ runs' = [runs EXCEPT ![r] = [@ EXCEPT !.pc = "fetch"]]
            /\ UNCHANGED faults
       ELSE /\ runs' = [runs EXCEPT ![r] =
                  [@ EXCEPT !.pc = "thrown", !.failedStep = 1,
                            !.errorMessage = "step error"]]
            /\ faults' = faults + 1
            /\ UNCHANGED videos
  /\ UNCHANGED <<events, sends, requests, retries, collections, documents, chat, otherVars>>

\* the adapter without its check of segments.length === 0
fetchYouTubeTranscriptUnchecked(youtubeId, available) ==
  IF ~available
  THEN [ok |-> FALSE, message |-> "Failed to fetch transcript"]
  ELSE [ok |-> TRUE, transcript |-> Transcript(youtubeId), title |-> <<"title", youtubeId>>]

\* fetchYouTubeTranscript: every failure is rethrown as "Failed to fetch transcript: ..."
fetchYouTubeTranscript(youtubeId, available) ==
  IF ~available \/ Len(Transcript(youtubeId)) = 0
  THEN [ok |-> FALSE, message |-> "Failed to fetch transcript"]
  ELSE [ok |-> TRUE, transcript |-> Transcript(youtubeId), title |-> <<"title", youtubeId>>]

\* step 2, "fetch-transcript"
FetchTranscript(r) ==
  /\ runs[r].pc = "fetch"
  /\ \E available \in {TRUE} \cup (IF CanFail THEN {FALSE} ELSE {}) :
       LET videoData == fetchYouTubeTranscript(runs[r].youtubeId, available)
       IN  /\ runs' = [runs EXCEPT ![r] =
                 IF videoData.ok
                 THEN [@ EXCEPT !.pc = "chunk", !.transcript = videoData.transcript,
                                !.title = videoData.title]
                 ELSE Raise(@, 2, videoData.message)]
           /\ faults' = IF available THEN faults ELSE faults + 1
  /\ UNCHANGED <<videos, events, sends, requests, retries, collections, documents, chat, otherVars>>

\* step 3, "chunk-transcript"
ChunkStep(run) ==
  IF Len(run.transcript) = 0
  THEN Raise(run, 3, "Cannot chunk empty transcript")
  ELSE LET chunks == chunkTranscript(run.transcript, run.videoId, ChunkSize)
       IN  IF Len(chunks) = 0
           THEN Raise(run, 3, "Chunking produced no results")
           ELSE [run EXCEPT !.pc = "collection", !.chunks = chunks]

ChunkTranscript(r) ==
  /\ runs[r].pc = "chunk"
  /\ runs' = [runs EXCEPT ![r] = ChunkStep(@)]
  /\ UNCHANGED <<videos, events, sends, requests, retries, collections, documents, faults, chat, otherVars>>

\* step 4, "create-zeroentropy-collection"
CreateCollection(r) ==
  LET name == getCollectionName(runs[r].videoId)
  IN  /\ runs[r].pc = "collection"
      /\ \E result \in CollectionsAdd(name) :
           /\ collections' = IF result = "ok" THEN collections \cup {name} ELSE collections
           /\ faults' = Fault(result)
           /\ runs' = [runs EXCEPT ![r] =
                 IF result = "ok" \/ CollectionTolerated(result)
                 THEN [@ EXCEPT !.pc = "embed"]
                 ELSE Raise(@, 4, IndexError(result))]
      /\ UNCHANGED <<videos, events, sends, requests, retries, documents, chat, otherVars>>

\* step 5, "embed-chunks": one iteration of the loop over chunks
EmbedChunk(r) ==
  LET run == runs[r]
      chunk == run.chunks[run.embeddedCount + 1]
      doc == [collection_name |-> getCollectionName(run.videoId), path |-> chunk.path]
      last == run.embeddedCount + 1 = Len(run.chunks)
  IN  /\ run.pc = "embed"
      /\ \E result \in DocumentsAdd(doc) :
           /\ documents' = IF result = "ok" THEN documents (+) SetToBag({doc}) ELSE documents
           /\ faults' = Fault(result)
           /\ runs' = [runs EXCEPT ![r] =
                 IF result = "ok" \/ DocumentTolerated(result)
                 THEN [@ EXCEPT !.embeddedCount = @ + 1,
                                !.existing = IF result = "ok" THEN @ ELSE @ + 1,
                                !.pc = IF last THEN "details" ELSE "embed"]
                 ELSE Raise(@, 5, IndexError(result))]
      /\ UNCHANGED <<videos, events, sends, requests, retries, collections, chat, otherVars>>

ReadyFields(run) == [status |-> "READY", title |-> run.title]

\* step 6, "update-video-details"
UpdateVideoDetails(r) ==
  /\ runs[r].pc = "details"
  /\ \E ok \in {TRUE} \cup (IF CanFail THEN {FALSE} ELSE {}) :
       IF ok
       THEN /\ videos' = UpdateRow(runs[r].videoId, ReadyFields(runs[r]))
            /\ runs' = [runs EXCEPT ![r] = [@ EXCEPT !.pc = "done"]]
            /\ UNCHANGED faults
       ELSE /\ runs' = [runs EXCEPT ![r] = Raise(@, 6, "Failed to update video status")]
            /\ faults' = faults + 1
            /\ UNCHANGED videos
  /\ UNCHANGED <<events, sends, requests, retries, collections, documents, chat, otherVars>>

\* the update without failure_reason
FailedStatusOnly(errorMessage) == [status |-> "FAILED"]

\* .update({ status: "FAILED", failure_reason: errorMessage })
FailedFields(errorMessage) == [status |-> "FAILED", failure_reason |-> errorMessage]

\* the catch block without its final throw: the function returns normally
Swallow(run) == [run EXCEPT !.pc = "done"]

\* after "update-status-to-failed": throw error
Rethrow(run) == [run EXCEPT !.pc = "thrown"]

\* the catch block: "update-status-to-failed", then the error is thrown again
UpdateStatusToFailed(r) ==
  /\ runs[r].pc = "catch"
  /\ videos' = UpdateRow(runs[r].videoId, FailedFields(runs[r].errorMessage))
  /\ runs' = [runs EXCEPT ![r] = Rethrow(@)]
  /\ UNCHANGED <<events, sends, requests, retries, collections, documents, faults, chat, otherVars>>

(***************************************************************************)
(* Spec: ingestion requests, retries and ingest runs.                      *)
(***************************************************************************)
Init ==
  /\ videos = <<>>
  /\ events = [v \in VideoIds |-> 0]
  /\ sends = [v \in VideoIds |-> 0]
  /\ requests = [q \in RequestCalls |-> IdleRequest]
  /\ retries = [c \in RetryCalls |-> IdleRetry]
  /\ runs = [r \in RunSlots |-> IdleRun]
  /\ collections = {}
  /\ documents = EmptyBag
  /\ faults = 0
  /\ chat = IdleChat
  /\ OthersIdle

Next ==
  \/ \E q \in DOMAIN requests, y \in YoutubeIds : RequestSingleInsert(q, y)
  \/ \E q \in DOMAIN requests : RequestBatchBegin(q)
  \/ \E q \in DOMAIN requests : RequestBatchSelect(q)
  \/ \E q \in DOMAIN requests : RequestBatchInsert(q)
  \/ \E q \in DOMAIN requests : RequestSend(q)
  \/ \E c \in RetryCalls, v \in VideoIds : RetrySelect(c, v)
  \/ \E c \in RetryCalls : RetryUpdate(c)
  \/ \E c \in RetryCalls : RetrySend(c)
  \/ \E r \in RunSlots, v \in VideoIds : RunStart(r, v)
  \/ \E r \in RunSlots : RunAgain(r)
  \/ \E r \in RunSlots : UpdateStatusToProcessing(r)
  \/ \E r \in RunSlots : FetchTranscript(r)
  \/ \E r \in RunSlots : ChunkTranscript(r)
  \/ \E r \in RunSlots : CreateCollection(r)
  \/ \E r \in RunSlots : EmbedChunk(r)
  \/ \E r \in RunSlots : UpdateVideoDetails(r)
  \/ \E r \in RunSlots : UpdateStatusToFailed(r)

Spec == Init /\ [][Next]_vars


(***************************************************************************)
(* SpecRequests: concurrent calls of requestIngestion by one profile.      *)
(***************************************************************************)
InitRequests ==
  /\ videos = <<>>
  /\ events = [v \in VideoIds |-> 0]
  /\ sends = [v \in VideoIds |-> 0]
  /\ requests = [q \in ConcurrentRequestCalls |-> IdleRequest]
  /\ retries = [c \in RetryCalls |-> IdleRetry]
  /\ runs = [r \in RunSlots |-> IdleRun]
  /\ collections = {}
  /\ documents = EmptyBag
  /\ faults = 0
  /\ chat = IdleChat
  /\ OthersIdle

NextRequests ==
  \/ \E q \in DOMAIN requests, y \in YoutubeIds : RequestSingleInsert(q, y)
  \/ \E q \in DOMAIN requests : RequestBatchBegin(q)
  \/ \E q \in DOMAIN requests : RequestBatchSelect(q)
  \/ \E q \in DOMAIN requests : RequestBatchInsert(q)
  \/ \E q \in DOMAIN requests : RequestSend(q)

SpecRequests == InitRequests /\ [][NextRequests]_vars

(***************************************************************************)
(* Claims about ingestion.                                                 *)
(***************************************************************************)
AllowedTransitions ==
  { <<"QUEUED", "PROCESSING">>, <<"PROCESSING", "READY">>,
    <<"PROCESSING", "FAILED">>, <<"FAILED", "QUEUED">> }

\* C1: every status change of a Video is QUEUED->PROCESSING, PROCESSING->READY,
\* PROCESSING->FAILED or FAILED->QUEUED; in particular a READY Video never changes.
C1_OnlyAllowedTransitions ==
  [][\A v \in Rows :
       videos'[v].status # videos[v].status
         => <<videos[v].status, videos'[v].status>> \in AllowedTransitions]_vars

PassagePaths(videoId) ==
  LET chunks == chunkTranscript(Transcript(videos[videoId].youtube_id), videoId, ChunkSize)
  IN  {chunks[i].path : i \in 1..Len(chunks)}

\* C3: however often the embed step ran for a video (a second run, a run started
\* again after a failure between two inserts), its collection holds exactly one
\* document per passage path and nothing else, and no run fails because the
\* collection or a document is already present.
C3_EmbedIdempotent ==
  /\ \A d \in BagToSet(documents) :
       /\ CopiesIn(d, documents) = 1
       /\ \E v \in Rows : /\ d.collection_name = getCollectionName(v)
                          /\ d.path \in PassagePaths(v)
  /\ \A r \in RunSlots :
       /\ runs[r].errorMessage # "already exists"
       /\ runs[r].pc \in {"details", "done"}
            => /\ getCollectionName(runs[r].videoId) \in collections
               /\ \A p \in PassagePaths(runs[r].videoId) :
                    CopiesIn([collection_name |-> getCollectionName(runs[r].videoId),
                              path |-> p], documents) = 1

\* a run that found one passage already inserted and inserted the other itself
C3_Witness ==
  \E r \in RunSlots :
    /\ runs[r].pc \in {"details", "done"}
    /\ Len(runs[r].chunks) = 2
    /\ runs[r].existing = 1

\* C4: at most one ingest run is executing steps for a given video id.
C4_OneRunPerVideo ==
  \A v \in Rows :
    Cardinality({r \in RunSlots : runs[r].videoId = v /\ runs[r].pc \in Executing}) <= 1

Handlers == {"chat", "compose"}

\* Math.ceil(a / b)
Ceil(a, b) == (a + b - 1) \div b

\* the chat route without Math.min: no upper clamp
ChunksPerVideoChatUnclamped(n) == IF n = 1 THEN 10 ELSE Max(3, Ceil(15, n))

\* chat: scopedVideoIds.length === 1 ? 10 : Math.max(3, Math.min(5, Math.ceil(15 / n)))
ChunksPerVideoChat(n) == IF n = 1 THEN 10 ELSE Max(3, Min(5, Ceil(15, n)))

\* the compose route with the constants of the chat route
ChunksPerVideoComposeAsChat(n) == IF n = 1 THEN 10 ELSE Max(3, Min(5, Ceil(15, n)))

\* compose: videoIds.length === 1 ? 15 : Math.max(5, Math.min(10, Math.ceil(25 / n)))
ChunksPerVideoCompose(n) == IF n = 1 THEN 15 ELSE Max(5, Min(10, Ceil(25, n)))

ChunksPerVideo(handler, n) ==
  IF handler = "chat" THEN ChunksPerVideoChat(n) ELSE ChunksPerVideoCompose(n)

\* Math.min(10, sortedResults.length) / Math.min(15, sortedResults.length)
TopN(handler) == IF handler = "chat" THEN 10 ELSE 15

(***************************************************************************)
(* client.queries.topSnippets: the responses the index may give.  A result *)
(* is (content, path, score); the j-th snippet of a video is its j-th      *)
(* passage, scored a at odd and b at even positions.                       *)
(***************************************************************************)
ScoreValues == {Undefined, 1, 2}

Snippet(videoId, j, score) ==
  [content |-> <<videoId, j>>,
   path |-> ChunkPath(videoId, (j - 1) * ChunkSize, (j - 1) * ChunkSize * 1234),
   score |-> score]

Snippets(videoId, len, a, b) ==
  [j \in 1..len |-> Snippet(videoId, j, IF j % 2 = 1 THEN a ELSE b)]

TopSnippets(videoId, k, rich) ==
  IF rich
  THEN {[kind |-> "notfound", results |-> <<>>], [kind |-> "error", results |-> <<>>],
        [kind |-> "noresults", results |-> <<>>], [kind |-> "ok", results |-> <<>>]}
       \cup {[kind |-> "ok", results |-> Snippets(videoId, k, a, b)] :
               a \in ScoreValues, b \in ScoreValues}
  ELSE {[kind |-> "notfound", results |-> <<>>],
        [kind |-> "ok", results |-> Snippets(videoId, k, 1, 1)]}

(***************************************************************************)
(* The retrieval loop.  query[j] is "notstarted", "inflight" or "completed".*)
(***************************************************************************)
NextQuery(c) ==
  IF \E j \in 1..Len(c.query) : c.query[j] # "completed"
  THEN CHOOSE j \in 1..Len(c.query) :
         /\ c.query[j] # "completed"
         /\ \A l \in 1..(j - 1) : c.query[l] = "completed"
  ELSE Len(c.query) + 1

\* for (const videoId of scopedVideoIds) { ... await client.queries.topSnippets(...) }
CanIssue(c, j) == j = NextQuery(c) /\ c.query[j] = "notstarted"

\* a loop body without try/catch: every failing query reaches the outer catch
CaughtNothing(response) == FALSE

\* only "not found" is caught; any other error reaches the handler's outer catch
CaughtOnlyNotFound(response) == response.kind # "error"

\* catch (error) { if (not found) log else log }: no error leaves the loop body
Caught(response) == TRUE

\* if (snippetResponse?.results) allResults.push(...snippetResponse.results)
PushResults(allResults, response) ==
  IF response.kind = "ok" THEN allResults \o response.results ELSE allResults

\* request validation (401/404/400 responses) and the constants of the request
Receive(handler, n, apiKey) ==
  /\ chat.pc = "idle"
  /\ chat' = IF n = 0
             THEN [chat EXCEPT !.pc = "responded", !.handler = handler, !.status = 400]
             ELSE IF ~apiKey
             THEN [chat EXCEPT !.pc = "responded", !.handler = handler, !.status = 500,
                               !.scopedVideoIds = [j \in 1..n |-> j]]
             ELSE [chat EXCEPT !.pc = "loop", !.handler = handler,
                               !.scopedVideoIds = [j \in 1..n |-> j],
                               !.chunksPerVideo = ChunksPerVideo(handler, n),
                               !.query = [j \in 1..n |-> "notstarted"]]
  /\ UNCHANGED <<ingestVars, otherVars>>

QueryIssue(j) ==
  /\ chat.pc = "loop"
  /\ j \in 1..Len(chat.query)
  /\ CanIssue(chat, j)
  /\ chat' = [chat EXCEPT !.query[j] = "inflight"]
  /\ UNCHANGED <<ingestVars, otherVars>>

QueryReturn(j) ==
  /\ chat.pc = "loop"
  /\ j \in 1..Len(chat.query)
  /\ chat.query[j] = "inflight"
  /\ \E response \in TopSnippets(chat.scopedVideoIds[j], chat.chunksPerVideo,
                                 Len(chat.query) <= RichScope) :
       chat' = IF response.kind \in {"ok", "noresults"} \/ Caught(response)
               THEN [chat EXCEPT !.query[j] = "completed",
                                 !.responses = Append(@, [video |-> j, response |-> response]),
                                 !.allResults = PushResults(@, response)]
               ELSE [chat EXCEPT !.pc = "responded", !.status = 500,
                                 !.query[j] = "completed",
                                 !.responses = Append(@, [video |-> j, response |-> response])]
  /\ UNCHANGED <<ingestVars, otherVars>>

(***************************************************************************)
(* Ranking and context assembly.                                           *)
(***************************************************************************)
\* (b.score || 0)
ScoreOrZero(score) == IF score = Undefined THEN 0 ELSE score

\* ascending: (a.score || 0) - (b.score || 0)
CompareAscending(a, b) == ScoreOrZero(a.score) - ScoreOrZero(b.score)

\* the comparator (a, b) => (b.score || 0) - (a.score || 0)
Compare(a, b) == ScoreOrZero(b.score) - ScoreOrZero(a.score)

\* .filter(result => result.score !== undefined)
RECURSIVE FilterScored(_)
FilterScored(results) ==
  IF results = <<>> THEN <<>>
  ELSE IF Head(results).score # Undefined
       THEN <<Head(results)>> \o FilterScored(Tail(results))
       ELSE FilterScored(Tail(results))

\* Array.prototype.sort is stable: x goes behind every element it does not precede
RECURSIVE InsertSorted(_, _)
InsertSorted(sorted, x) ==
  IF sorted = <<>> THEN <<x>>
  ELSE IF Compare(Head(sorted), x) <= 0
       THEN <<Head(sorted)>> \o InsertSorted(Tail(sorted), x)
       ELSE <<x>> \o sorted

RECURSIVE SortResults(_)
SortResults(results) ==
  IF results = <<>> THEN <<>>
  ELSE InsertSorted(SortResults(SubSeq(results, 1, Len(results) - 1)),
                    results[Len(results)])

\* sortedResults.slice(0, Math.min(N, sortedResults.length))
TopResults(handler, sortedResults) ==
  SubSeq(sortedResults, 1, Min(TopN(handler), Len(sortedResults)))

\* filename.match(/chunk_\d+_(\d+(?:\.\d+)?)s/): the digits written by toFixed(1)
ParseTimestamp(path) == path.tenths

NothingFound == "No relevant information found in the selected video transcripts."

\* without the else branch: context keeps its initial value ''
FormatContextNoElse(topResults) ==
  IF Len(topResults) > 0
  THEN [i \in 1..Len(topResults) |->
          [chunk |-> i, videoId |-> topResults[i].path.videoId,
           timestamp |-> ParseTimestamp(topResults[i].path),
           content |-> topResults[i].content]]
  ELSE <<>>

FormatContext(topResults) ==
  IF Len(topResults) > 0
  THEN [i \in 1..Len(topResults) |->
          [chunk |-> i, videoId |-> topResults[i].path.videoId,
           timestamp |-> ParseTimestamp(topResults[i].path),
           content |-> topResults[i].content]]
  ELSE NothingFound

\* after the loop: sort, slice, format the context, call streamText
Assemble ==
  /\ chat.pc = "loop"
  /\ NextQuery(chat) > Len(chat.query)
  /\ LET sortedResults == SortResults(FilterScored(chat.allResults))
         topResults == TopResults(chat.handler, sortedResults)
     IN  chat' = [chat EXCEPT !.pc = "generate",
                              !.sortedResults = sortedResults,
                              !.topResults = topResults,
                              !.context = FormatContext(topResults)]
  /\ UNCHANGED <<ingestVars, otherVars>>

InitRetrieval ==
  /\ videos = <<>>
  /\ events = [v \in VideoIds |-> 0]
  /\ sends = [v \in VideoIds |-> 0]
  /\ requests = [q \in RequestCalls |-> IdleRequest]
  /\ retries = [c \in RetryCalls |-> IdleRetry]
  /\ runs = [r \in RunSlots |-> IdleRun]
  /\ collections = {}
  /\ documents = EmptyBag
  /\ faults = 0
  /\ chat = IdleChat
  /\ OthersIdle

NextRetrieval ==
  \/ \E h \in Handlers, n \in 0..MaxScope, apiKey \in BOOLEAN : Receive(h, n, apiKey)
  \/ \E j \in 1..MaxScope : QueryIssue(j)
  \/ \E j \in 1..MaxScope : QueryReturn(j)
  \/ Assemble

SpecRetrieval == InitRetrieval /\ [][NextRetrieval]_vars


(***************************************************************************)
(* Claims about retrieval.                                                 *)
(***************************************************************************)
ScopeSize == Len(chat.scopedVideoIds)

RECURSIVE Pooled(_)
Pooled(responses) ==
  IF responses = <<>> THEN <<>>
  ELSE LET last == responses[Len(responses)].response
       IN  Pooled(SubSeq(responses, 1, Len(responses) - 1))
           \o (IF last.kind = "ok" THEN last.results ELSE <<>>)

\* C7: whichever collection queries fail (not found or any other error), the request
\* goes on to completion without an error response, and the pool is exactly the
\* results of the queries that succeeded, in query order.
C7_FailedQueriesContributeNothing ==
  /\ chat.allResults = Pooled(chat.responses)
  /\ chat.responses # <<>> => chat.pc \in {"loop", "generate"} /\ chat.status = 0
  /\ chat.pc = "generate"
       => \A j \in 1..ScopeSize :
            \E i \in 1..Len(chat.responses) : chat.responses[i].video = j

C7_Witness ==
  /\ chat.pc = "generate"
  /\ \E i \in 1..Len(chat.responses) : chat.responses[i].response.kind = "notfound"
  /\ \E i \in 1..Len(chat.responses) : chat.responses[i].response.kind = "error"
  /\ \E i \in 1..Len(chat.responses) :
       chat.responses[i].response.kind = "ok" /\ chat.responses[i].response.results # <<>>
  /\ Len(chat.allResults) = chat.chunksPerVideo

\* C8: a query that is still in flight never keeps the query of another scoped video
\* from being started, and ranking starts only when every query has completed.
C8_QueriesIndependent ==
  /\ \A j, l \in 1..Len(chat.query) :
       (chat.pc = "loop" /\ chat.query[j] = "inflight" /\ chat.query[l] = "notstarted")
         => ENABLED QueryIssue(l)
  /\ chat.pc = "generate" => \A j \in 1..Len(chat.query) : chat.query[j] = "completed"

Position(x) == CHOOSE p \in 1..Len(chat.allResults) : chat.allResults[p] = x

ScoredPositions == {p \in 1..Len(chat.allResults) : chat.allResults[p].score # Undefined}

\* C9: the passages of the context are the min(N, m) highest-scoring of the m scored
\* results of the pool (N = 10 chat, 15 compose), in non-increasing score order, equal
\* scores in pool order, whichever video they come from; no unscored result is chosen.
C9_TopNByScore ==
  chat.pc = "generate" =>
    LET top == chat.topResults
        N == IF chat.handler = "chat" THEN 10 ELSE 15
        m == Cardinality(ScoredPositions)
        chosen == {Position(top[i]) : i \in 1..Len(top)}
    IN  /\ Len(top) = IF N <= m THEN N ELSE m
        /\ chosen \subseteq ScoredPositions
        /\ \A i \in 1..Len(top) : \E p \in 1..Len(chat.allResults) : chat.allResults[p] = top[i]
        /\ \A i, j \in 1..Len(top) :
             i < j => \/ top[i].score > top[j].score
                      \/ /\ top[i].score = top[j].score
                         /\ Position(top[i]) < Position(top[j])
        /\ \A p \in ScoredPositions \ chosen : \A i \in 1..Len(top) :
             \/ chat.allResults[p].score < top[i].score
             \/ /\ chat.allResults[p].score = top[i].score
                /\ Position(top[i]) < p
        /\ IF Len(top) = 0 THEN chat.context = NothingFound
           ELSE /\ Len(chat.context) = Len(top)
                /\ \A i \in 1..Len(top) : chat.context[i].content = top[i].content

\* more scored results than N, unscored ones among them, ties, and a later video's
\* passages ranked before an earlier video's
C9_Witness ==
  /\ chat.pc = "generate"
  /\ chat.handler = "chat"
  /\ Cardinality(ScoredPositions) > Len(chat.topResults)
  /\ Cardinality(ScoredPositions) < Len(chat.allResults)
  /\ chat.topResults[1].path.videoId = 3
  /\ chat.topResults[1].score = chat.topResults[2].score
  /\ chat.topResults[5].score > chat.topResults[6].score
  /\ chat.topResults[6].path.videoId = 1
  /\ chat.topResults[10].path.videoId = 2

\* the least integer c with c * n >= 15
CeilOf15(n) == CHOOSE c \in 1..15 : c * n >= 15 /\ (c - 1) * n < 15

\* C10: in the chat handler k(1) = 10 and k(n) = clamp(ceil(15/n), 3, 5) for n > 1, so
\* k(2) = 5, k(3) = 5, k(4) = 4, k(5) = 3, k(10) = 3 and 3 <= k(n) <= 5; with 4 videos
\* the pool has at most 16 results and the context at most 10.
C10_AdaptiveBudget ==
  (chat.handler = "chat" /\ chat.pc \in {"loop", "generate"}) =>
    LET n == ScopeSize
        k == chat.chunksPerVideo
        c == CeilOf15(n)
    IN  /\ n = 1 => k = 10
        /\ n > 1 => k = (IF c < 3 THEN 3 ELSE IF c > 5 THEN 5 ELSE c)
        /\ n > 1 => 3 <= k /\ k <= 5
        /\ n = 2 => k = 5
        /\ n = 3 => k = 5
        /\ n = 4 => k = 4
        /\ n = 5 => k = 3
        /\ n = 10 => k = 3
        /\ Len(chat.allResults) <= n * k
        /\ n = 4 => Len(chat.allResults) <= 16 /\ Len(chat.topResults) <= 10

C10_Witness ==
  /\ chat.handler = "chat"
  /\ chat.pc = "generate"
  /\ ScopeSize = 4
  /\ Len(chat.allResults) = 16
  /\ Len(chat.topResults) = 10

C10_WitnessTen ==
  /\ chat.handler = "chat"
  /\ chat.pc = "generate"
  /\ ScopeSize = 10
  /\ chat.chunksPerVideo = 3

CeilOf25(n) == CHOOSE c \in 1..25 : c * n >= 25 /\ (c - 1) * n < 25

AllQueriesCompleted ==
  /\ chat.query # <<>>
  /\ \A j \in 1..Len(chat.query) : chat.query[j] = "completed"

NoScoredResult == \A p \in 1..Len(chat.allResults) : chat.allResults[p].score = Undefined

\* C12: when every collection query has failed or returned no scored result the request
\* is not failed; generation is still invoked, and the context it gets is the text
\* 'No relevant information found in the selected video transcripts.', never ''.
C12_NothingFoundContext ==
  /\ (chat.pc = "loop" /\ AllQueriesCompleted) => chat.status = 0
  /\ (chat.pc = "loop" /\ AllQueriesCompleted /\ NoScoredResult) => ENABLED Assemble
  /\ chat.pc = "generate" =>
       /\ chat.status = 0
       /\ IF NoScoredResult
          THEN chat.context = "No relevant information found in the selected video transcripts."
          ELSE Len(chat.context) > 0

\* one query failed with not found, one with another error, one returned unscored results
C12_Witness ==
  /\ chat.pc = "generate"
  /\ NoScoredResult
  /\ chat.allResults # <<>>
  /\ \E i \in 1..Len(chat.responses) : chat.responses[i].response.kind = "notfound"
  /\ \E i \in 1..Len(chat.responses) : chat.responses[i].response.kind = "error"
  /\ chat.topResults = <<>>

AllQueriesRaised ==
  /\ chat.responses # <<>>
  /\ Len(chat.responses) = ScopeSize
  /\ \A i \in 1..Len(chat.responses) : chat.responses[i].response.kind = "error"

\* C13 as stated: when every collection query of the request raises an error other than
\* not found, the request ends with a hard error and generation is not invoked.
C13_SystemicFailurePropagates ==
  AllQueriesRaised => chat.pc = "responded" /\ chat.status = 500

\* C13 (amended): errors raised by collection queries never end the request: when every
\* query raises an error other than not found, generation is invoked with the 'no
\* relevant information found' context.  The only hard error of the Index Client is the
\* failure to construct it (no API key), returned as 500 before any query is issued.
C13_QueryErrorsSwallowed ==
  /\ chat.status = 500 => chat.pc = "responded" /\ chat.responses = <<>> /\ chat.query = <<>>
  /\ AllQueriesRaised =>
       /\ chat.status = 0
       /\ chat.pc = "loop" => ENABLED Assemble
       /\ chat.pc = "generate" => chat.context = NothingFound /\ chat.allResults = <<>>
       /\ chat.pc \in {"loop", "generate"}

C13_Witness ==
  /\ chat.pc = "generate"
  /\ ScopeSize = 3
  /\ AllQueriesRaised
  /\ chat.context = NothingFound

(***************************************************************************)
(* Citations.  A text is a sequence of symbols: the literals of the        *)
(* citation grammar, word characters, white space and other characters.    *)
(***************************************************************************)
MaxPieces == 3

Space == {" ", "NL"}
Digit == {"1", "7"}
\* \w: the ids A and B of the video map, another word w, digits, the letter s
Word == {"A", "B", "w", "s"} \cup Digit

\* videos: Record<id, {youtubeId, title}>; videoIdToYoutubeId in the export route
KnownVideos == {<<"A">>, <<"B">>}
YoutubeIdOf(videoId) == IF videoId = <<"A">> THEN "y1" ELSE "y2"

Pieces ==
  { <<"w">>,
    <<"]">>,
    <<"[video_id:", " ", "A", ",", " ", "time:", " ", "1", "7", "]">>,
    <<"[video_id:", "B", ",", "time:", "7", ".", "1", "s", "]">>,
    <<"[video_id:", " ", "w", ",", " ", "time:", " ", "1", ".", "]">>,
    <<"[video_id:", " ", "A", ",", " ", "time:", " ", "1", "s", " ", "w", "]">>,
    <<"[video_id:", " ", "B", ",", " ", "time:", " ", "7", "NL">>,
    <<"[video_id:", " ", "A", "1", ",", " ", "time:", " ", "7", "(", "]">> }

RECURSIVE Flatten(_)
Flatten(pieces) ==
  IF pieces = <<>> THEN <<>> ELSE Head(pieces) \o Flatten(Tail(pieces))

Texts == {Flatten(pieces) : pieces \in UNION {[1..n -> Pieces] : n \in 0..MaxPieces}}

\* the character at 0-based index i
At(text, i) == IF i < Len(text) THEN text[i + 1] ELSE "EOF"

\* text.substring(from, to)
Substring(text, from, to) == SubSeq(text, from + 1, to)

\* the end of the longest run of characters of class that starts at i
RunEnd(text, i, class) ==
  CHOOSE j \in i..Len(text) :
    /\ At(text, j) \notin class
    /\ \A l \in i..(j - 1) : At(text, l) \in class

\* .*?\] : the first ']' at or after i on the same line
LazyClose(text, i) ==
  CHOOSE j \in i..Len(text) :
    /\ At(text, j) \in {"]", "NL", "EOF"}
    /\ \A l \in i..(j - 1) : At(text, l) \notin {"]", "NL", "EOF"}

RECURSIVE DigitsValue(_)
DigitsValue(digits) ==
  IF digits = <<>> THEN 0
  ELSE 10 * DigitsValue(SubSeq(digits, 1, Len(digits) - 1))
       + (IF digits[Len(digits)] = "1" THEN 1 ELSE 7)

\* renderer: /\[video_id:\s*([\w-]+),\s*time:\s*(\d+(?:\.\d*)?)s?\]/
\* export:   /\[video_id:\s*([\w-]+),\s*time:\s*(\d+(?:\.\d*)?)s?.*?\]/
MatchAt(grammar, text, p) ==
  LET b == RunEnd(text, p + 1, Space)
      c == RunEnd(text, b, Word)
      d == RunEnd(text, c + 1, Space)
      e == RunEnd(text, d + 1, Space)
      f == RunEnd(text, e, Digit)
      g == IF At(text, f) = "." THEN RunEnd(text, f + 1, Digit) ELSE f
      h == IF At(text, g) = "s" THEN g + 1 ELSE g
      close == IF grammar = "export" THEN LazyClose(text, h) ELSE h
      found == /\ At(text, p) = "[video_id:"
               /\ c > b
               /\ At(text, c) = ","
               /\ d < Len(text) /\ At(text, d) = "time:"
               /\ f > e
               /\ At(text, close) = "]"
  IN  IF p < Len(text) /\ found
      THEN [found |-> TRUE, index |-> p, end |-> close + 1,
            videoId |-> Substring(text, b, c),
            seconds |-> DigitsValue(Substring(text, e, f)),
            fraction |-> IF g > f THEN Substring(text, f + 1, g) ELSE <<>>]
      ELSE [found |-> FALSE]

\* the next match of a global regex: the leftmost one that starts at from or later
NextMatch(grammar, text, from) ==
  IF \E p \in from..(Len(text) - 1) : MatchAt(grammar, text, p).found
  THEN MatchAt(grammar, text,
               CHOOSE p \in from..(Len(text) - 1) :
                 /\ MatchAt(grammar, text, p).found
                 /\ \A q \in from..(p - 1) : ~MatchAt(grammar, text, q).found)
  ELSE [found |-> FALSE]

(***************************************************************************)
(* CitationRenderer: one step per match of text.matchAll(citationRegex).   *)
(***************************************************************************)
Element(kind, text, number, videoId, seconds) ==
  [kind |-> kind, text |-> text, number |-> number,
   youtubeId |-> IF kind \in {"citation", "link"} THEN YoutubeIdOf(videoId) ELSE "none",
   seconds |-> seconds]

TextElement(text) == Element("text", text, 0, <<>>, 0)

\* the unknown citation is skipped instead of rendered as its text
FallbackDropped(fullMatch) == Element("fallback", <<>>, 0, <<>>, 0)

\* else { elements.push({ element: fullMatch }) }
FallbackElement(fullMatch) == Element("fallback", fullMatch, 0, <<>>, 0)

\* the counter is used without being incremented
SameNumber(citationCounter) == citationCounter

\* citationCounter++
NextNumber(citationCounter) == citationCounter + 1

\* <a href=".../watch?v=${youtubeId}&t=${Math.floor(timestamp)}s">[{currentCitationNumber}]</a>
CitationElement(number, match) ==
  Element("citation", <<>>, number, match.videoId, match.seconds)

RenderMatch ==
  /\ render.pc = "loop"
  /\ LET match == NextMatch("renderer", content, render.lastIndex)
         fullMatch == Substring(content, match.index, match.end)
         before == IF match.index > render.lastIndex
                   THEN <<TextElement(Substring(content, render.lastIndex, match.index))>>
                   ELSE <<>>
         videoInfo == match.videoId \in KnownVideos
     IN  /\ match.found
         /\ render' =
              [render EXCEPT
                 !.elements = @ \o before
                                \o <<IF videoInfo
                                     THEN CitationElement(render.citationCounter, match)
                                     ELSE FallbackElement(fullMatch)>>,
                 !.citationCounter = IF videoInfo THEN NextNumber(@) ELSE @,
                 !.lastIndex = match.end,
                 !.matches = Append(@, match)]
  /\ UNCHANGED <<ingestVars, chat, content, convert, chunking, stream, store>>

\* if (lastIndex < text.length) elements.push(text.substring(lastIndex))
RenderRest ==
  /\ render.pc = "loop"
  /\ ~NextMatch("renderer", content, render.lastIndex).found
  /\ render' =
       [render EXCEPT
          !.pc = "done",
          !.elements = IF render.lastIndex < Len(content)
                       THEN Append(@, TextElement(Substring(content, render.lastIndex,
                                                             Len(content))))
                       ELSE @]
  /\ UNCHANGED <<ingestVars, chat, content, convert, chunking, stream, store>>

(***************************************************************************)
(* convertCitations of the export route: one step per call of the          *)
(* replacement callback of text.replace(citationRegex, ...).               *)
(***************************************************************************)
\* `[[${citationCounter++}]](${youtubeUrl})` or `[${citationCounter++}] ${youtubeUrl}`
LinkElement(number, match) == Element("link", <<>>, number, match.videoId, match.seconds)

ConvertMatch ==
  /\ convert.pc = "loop"
  /\ LET match == NextMatch("export", content, convert.lastIndex)
         before == IF match.index > convert.lastIndex
                   THEN <<TextElement(Substring(content, convert.lastIndex, match.index))>>
                   ELSE <<>>
         youtubeId == match.videoId \in KnownVideos
     IN  /\ match.found
         /\ convert' =
              [convert EXCEPT
                 !.output = @ \o before
                              \o <<IF youtubeId
                                   THEN LinkElement(convert.citationCounter, match)
                                   ELSE TextElement(Substring(content, match.index,
                                                              match.end))>>,
                 !.citationCounter = IF youtubeId THEN @ + 1 ELSE @,
                 !.lastIndex = match.end,
                 !.matches = Append(@, match)]
  /\ UNCHANGED <<ingestVars, chat, content, render, chunking, stream, store>>

ConvertRest ==
  /\ convert.pc = "loop"
  /\ ~NextMatch("export", content, convert.lastIndex).found
  /\ convert' =
       [convert EXCEPT
          !.pc = "done",
          !.output = IF convert.lastIndex < Len(content)
                     THEN Append(@, TextElement(Substring(content, convert.lastIndex,
                                                           Len(content))))
                     ELSE @]
  /\ UNCHANGED <<ingestVars, chat, content, render, chunking, stream, store>>

InitCitations ==
  /\ videos = <<>>
  /\ events = [v \in VideoIds |-> 0]
  /\ sends = [v \in VideoIds |-> 0]
  /\ requests = [q \in RequestCalls |-> IdleRequest]
  /\ retries = [c \in RetryCalls |-> IdleRetry]
  /\ runs = [r \in RunSlots |-> IdleRun]
  /\ collections = {}
  /\ documents = EmptyBag
  /\ faults = 0
  /\ chat = IdleChat
  /\ content \in Texts
  /\ render = IdleRender
  /\ convert = IdleConvert
  /\ chunking = IdleChunking
  /\ stream = IdleStream
  /\ store = EmptyStore

NextCitations ==
  \/ RenderMatch
  \/ RenderRest
  \/ ConvertMatch
  \/ ConvertRest

SpecCitations == InitCitations /\ [][NextCitations]_vars

(***************************************************************************)
(* Claims about citations.                                                 *)
(***************************************************************************)
IsCitation(element) == element.kind = "citation"
IsLink(element) == element.kind = "link"
IsFallback(element) == element.kind = "fallback"
IsKnown(match) == match.videoId \in KnownVideos
IsUnknown(match) == match.videoId \notin KnownVideos

Markers == SelectSeq(render.elements, IsCitation)
KnownTokens == SelectSeq(render.matches, IsKnown)
UnknownTokens == SelectSeq(render.matches, IsUnknown)

\* C14: the markers of one rendered message are numbered 1, 2, ..., m in order of
\* appearance, without gap or repeat, one per citation token whose video id is known
\* (two citations of the same video get two numbers); each links to that video's source
\* id with timestamp floor(seconds).
C14_MarkersNumberedInOrder ==
  /\ Len(Markers) = Len(KnownTokens)
  /\ render.citationCounter = Len(Markers) + 1
  /\ \A i \in 1..Len(Markers) :
       /\ Markers[i].number = i
       /\ Markers[i].youtubeId = YoutubeIdOf(KnownTokens[i].videoId)
       /\ Markers[i].seconds = KnownTokens[i].seconds
       /\ Markers[i].seconds \in {1, 7, 17}
  /\ \A i, j \in 1..Len(KnownTokens) : i < j => KnownTokens[i].end <= KnownTokens[j].index

\* three markers, the first and the third for the same video, the second with a
\* fractional timestamp
C14_Witness ==
  /\ render.pc = "done"
  /\ Len(Markers) = 3
  /\ Markers[1].youtubeId = Markers[3].youtubeId
  /\ Markers[2].youtubeId # Markers[1].youtubeId
  /\ KnownTokens[2].fraction # <<>>
  /\ Markers[3].number = 3

\* the rendered elements with every marker put back as the token it replaced
RECURSIVE Restore(_, _)
Restore(elements, tokens) ==
  IF elements = <<>> THEN <<>>
  ELSE IF Head(elements).kind = "citation"
       THEN Substring(content, Head(tokens).index, Head(tokens).end)
            \o Restore(Tail(elements), Tail(tokens))
       ELSE Head(elements).text \o Restore(Tail(elements), tokens)

\* C15: a citation token whose video id is not in the video map is emitted as its
\* literal text and takes no citation number; the other text is emitted unchanged and
\* in order; putting every marker back as the token it replaced gives the input text.
C15_RenderingPreservesText ==
  LET fallbacks == SelectSeq(render.elements, IsFallback)
  IN  /\ Len(fallbacks) = Len(UnknownTokens)
      /\ \A i \in 1..Len(fallbacks) :
           /\ fallbacks[i].text = Substring(content, UnknownTokens[i].index,
                                            UnknownTokens[i].end)
           /\ fallbacks[i].number = 0
      /\ render.citationCounter = 1 + Len(KnownTokens)
      /\ render.pc = "loop" =>
           Restore(render.elements, KnownTokens) = Substring(content, 0, render.lastIndex)
      /\ render.pc = "done" => Restore(render.elements, KnownTokens) = content

\* an unknown citation first, then text, then a known citation that gets number 1
C15_Witness ==
  /\ render.pc = "done"
  /\ Len(render.elements) = 3
  /\ render.elements[1].kind = "fallback"
  /\ render.elements[1].text # <<>>
  /\ render.elements[2].kind = "text"
  /\ render.elements[3].kind = "citation"
  /\ render.elements[3].number = 1

\* C16: the renderer and the export converter replace the same tokens of a message
\* (neither treats as a citation of a known video a text that the other leaves as plain
\* text) and give the i-th replaced token the same number, video and floored timestamp.
C16_SameCitationGrammar ==
  (render.pc = "done" /\ convert.pc = "done") =>
    LET links == SelectSeq(convert.output, IsLink)
    IN  /\ KnownTokens = SelectSeq(convert.matches, IsKnown)
        /\ Len(links) = Len(Markers)
        /\ \A i \in 1..Len(links) :
             /\ links[i].number = Markers[i].number
             /\ links[i].youtubeId = Markers[i].youtubeId
             /\ links[i].seconds = Markers[i].seconds

(***************************************************************************)
(* chunkTranscript on arbitrary transcripts, and the context assembler on  *)
(* the passages it produced.  Offsets are in milliseconds; none of them    *)
(* lies exactly halfway between two tenths of a second.                    *)
(***************************************************************************)
MaxSegments == 7
MaxGroup == 4

StartOffsets == {0, 40, 60, 1500}
Steps == {1234, 2000}

Transcripts ==
  {[i \in 1..n |-> [text |-> i, offset |-> start + (i - 1) * step, duration |-> 1000]] :
     n \in 0..MaxSegments, start \in StartOffsets, step \in Steps}

\* the segment lists the transcript adapter may receive: up to MaxRaw entries, each a
\* transcript segment or a section header, with start_ms and end_ms
MaxRaw == 3
RawEntries ==
  [type : {"TranscriptSegment", "TranscriptSectionHeader"},
   start_ms : {0, 1500}, end_ms : {0, 1500, 3000}]

RawLists == UNION {[1..n -> RawEntries] : n \in 0..MaxRaw}

\* processSegmentList: headers are skipped; offset = start_ms, duration = end_ms - start_ms
RECURSIVE processSegmentList(_, _)
processSegmentList(initial_segments, i) ==
  IF i > Len(initial_segments) THEN <<>>
  ELSE LET segment == initial_segments[i]
       IN  (IF segment.type = "TranscriptSegment"
            THEN << [text |-> i, offset |-> segment.start_ms,
                     duration |-> segment.end_ms - segment.start_ms] >>
            ELSE <<>>)
           \o processSegmentList(initial_segments, i + 1)

ExtractedTranscripts == {processSegmentList(raw, 1) : raw \in RawLists}

\* chunks = chunkTranscript(transcript, videoId[, chunkSize])
ChunkCall ==
  /\ chunking.pc = "input"
  /\ chunking' = [chunking EXCEPT
                    !.pc = "chunked",
                    !.chunks = chunkTranscript(chunking.transcript, chunking.videoId,
                                               chunking.chunkSize)]
  /\ UNCHANGED <<ingestVars, chat, content, render, convert, stream, store>>

\* the passages as the index returns them: content, path, score
AsResults(chunks) ==
  [k \in 1..Len(chunks) |->
     [content |-> chunks[k].text, path |-> chunks[k].path, score |-> 1]]

\* the context assembler on these passages
ParsePaths ==
  /\ chunking.pc = "chunked"
  /\ chunking' = [chunking EXCEPT
                    !.pc = "parsed",
                    !.context = FormatContext(AsResults(chunking.chunks))]
  /\ UNCHANGED <<ingestVars, chat, content, render, convert, stream, store>>

InitChunker ==
  /\ videos = <<>>
  /\ events = [v \in VideoIds |-> 0]
  /\ sends = [v \in VideoIds |-> 0]
  /\ requests = [q \in RequestCalls |-> IdleRequest]
  /\ retries = [c \in RetryCalls |-> IdleRetry]
  /\ runs = [r \in RunSlots |-> IdleRun]
  /\ collections = {}
  /\ documents = EmptyBag
  /\ faults = 0
  /\ chat = IdleChat
  /\ content = <<>>
  /\ render = IdleRender
  /\ convert = IdleConvert
  /\ stream = IdleStream
  /\ store = EmptyStore
  /\ \E transcript \in Transcripts \cup ExtractedTranscripts,
        videoId \in 1..2, chunkSize \in 1..MaxGroup :
       chunking = [IdleChunking EXCEPT !.pc = "input", !.transcript = transcript,
                                       !.videoId = videoId, !.chunkSize = chunkSize]

NextChunker ==
  \/ ChunkCall
  \/ ParsePaths

SpecChunker == InitChunker /\ [][NextChunker]_vars

\* C17 as stated: parsing the path key of a passage of video v gives v and the passage's
\* start time in seconds as stored by the chunker, and never 0 for a start time other
\* than 0.
C17_PathRoundTrip ==
  (chunking.pc = "parsed" /\ chunking.chunks # <<>>) =>
    \A k \in 1..Len(chunking.chunks) :
      /\ chunking.context[k].videoId = chunking.videoId
      /\ chunking.context[k].timestamp * 100 = chunking.chunks[k].startTime
      /\ chunking.chunks[k].startTime # 0 => chunking.context[k].timestamp # 0

\* C17 (amended): parsing the path key of a passage of video v gives v and the passage's
\* start time rounded to one decimal (toFixed(1)): it differs from the stored start time
\* by at most 0.05 s, equals it when that time is a whole number of tenths, and is 0.0
\* exactly for start times below 0.05 s.
C17_PathRoundTripToTenths ==
  (chunking.pc = "parsed" /\ chunking.chunks # <<>>) =>
    /\ Len(chunking.context) = Len(chunking.chunks)
    /\ \A k \in 1..Len(chunking.chunks) :
         LET startTime == chunking.chunks[k].startTime
             timestamp == chunking.context[k].timestamp
         IN  /\ chunking.context[k].videoId = chunking.videoId
             /\ timestamp * 100 - startTime <= 50
             /\ startTime - timestamp * 100 <= 50
             /\ startTime % 100 = 0 => timestamp * 100 = startTime
             /\ timestamp = 0 <=> startTime < 50

\* a passage that starts at 0.04 s and one whose start time has more than one decimal
C17_Witness ==
  /\ chunking.pc = "parsed"
  /\ Len(chunking.chunks) >= 2
  /\ chunking.chunks[1].startTime = 40
  /\ chunking.context[1].timestamp = 0
  /\ chunking.chunks[2].startTime % 100 # 0
  /\ chunking.context[2].timestamp * 100 > chunking.chunks[2].startTime

\* ceil(n / g)
CeilDiv(n, g) == CHOOSE c \in 0..n : c * g >= n /\ (c - 1) * g < n

RECURSIVE JoinPassages(_)
JoinPassages(chunks) ==
  IF chunks = <<>> THEN <<>>
  ELSE IF Len(chunks) = 1 THEN chunks[1].text
  ELSE chunks[1].text \o <<" ">> \o JoinPassages(Tail(chunks))

\* C18: for n >= 1 segments and group size g >= 1 chunkTranscript returns ceil(n/g)
\* passages; passage k is built from the consecutive segments (k-1)g+1 .. min(kg, n), so
\* every group has g segments except possibly a smaller last one and every segment is in
\* exactly one group; the passage texts joined by single spaces are the segment texts
\* joined by single spaces.
C18_ChunkingCoversTranscript ==
  LET n == Len(chunking.transcript)
      g == chunking.chunkSize
      chunks == chunking.chunks
  IN  (chunking.pc \in {"chunked", "parsed"} /\ n >= 1) =>
        /\ Len(chunks) = CeilDiv(n, g)
        /\ \A k \in 1..Len(chunks) :
             LET first == (k - 1) * g + 1
                 size == IF k * g <= n THEN g ELSE n - (k - 1) * g
             IN  /\ size >= 1
                 /\ k < Len(chunks) => size = g
                 /\ Len(chunks[k].text) = 2 * size - 1
                 /\ \A j \in 1..size :
                      chunks[k].text[2 * j - 1] = chunking.transcript[first + j - 1].text
                 /\ \A j \in 1..(size - 1) : chunks[k].text[2 * j] = " "
                 /\ chunks[k].path.index = first - 1
                 /\ chunks[k].startTime = chunking.transcript[first].offset
        /\ Len(JoinPassages(chunks)) = 2 * n - 1
        /\ JoinPassages(chunks) = JoinTexts(chunking.transcript)

\* 7 segments in groups of 3: two full groups and a last group of one
C18_Witness ==
  /\ chunking.pc = "chunked"
  /\ Len(chunking.transcript) = 7
  /\ chunking.chunkSize = 3
  /\ Len(chunking.chunks) = 3
  /\ Len(chunking.chunks[3].text) = 1

(***************************************************************************)
(* Generation and persistence in the chat route: streamText and its        *)
(* onFinish callback.  The text of the answer is the number of tokens the  *)
(* model has produced.  streamText calls onFinish when the stream has      *)
(* finished; a stream that failed or that the client abandoned does not    *)
(* finish.                                                                 *)
(***************************************************************************)
MaxTokens == 3

\* the user message is inserted when the request arrives
SavesOnRequestAlways == TRUE

\* the handler writes nothing to the store before it calls streamText
SavesOnRequest == FALSE

Message(conversationId, role, messageContent) ==
  [conversationId |-> conversationId, role |-> role, content |-> messageContent]

\* const { messages, conversationId } = body; const result = streamText({ ... })
StreamText(conversationId, messages) ==
  /\ stream.pc = "idle"
  /\ stream' = [stream EXCEPT !.pc = "streaming", !.conversationId = conversationId,
                              !.messages = messages]
  /\ store' = IF SavesOnRequest
              THEN [store EXCEPT !.messages = Append(@, Message(conversationId, "user",
                                                                "userQuery"))]
              ELSE store
  /\ UNCHANGED <<ingestVars, chat, content, render, convert, chunking>>

\* the model produces one more token of the answer
Token ==
  /\ stream.pc = "streaming"
  /\ stream.tokens < MaxTokens
  /\ stream' = [stream EXCEPT !.tokens = @ + 1]
  /\ UNCHANGED <<ingestVars, chat, content, render, convert, chunking, store>>

\* the model call fails mid-stream
StreamError ==
  /\ stream.pc = "streaming"
  /\ stream' = [stream EXCEPT !.pc = "failed"]
  /\ UNCHANGED <<ingestVars, chat, content, render, convert, chunking, store>>

\* the client stops (useChat().stop()) or disconnects: the response is no longer read
Cancel ==
  /\ stream.pc = "streaming"
  /\ stream' = [stream EXCEPT !.pc = "cancelled"]
  /\ UNCHANGED <<ingestVars, chat, content, render, convert, chunking, store>>

\* the stream ends; onFinish({ text }) starts: let activeConversationId = conversationId;
\* if (!activeConversationId && messages.length === 1) create the conversation
StreamFinish ==
  /\ stream.pc = "streaming"
  /\ stream' = [stream EXCEPT
                  !.finished = TRUE,
                  !.text = stream.tokens,
                  !.activeConversationId = stream.conversationId,
                  !.pc = IF stream.conversationId = "none" /\ stream.messages = 1
                         THEN "conversation"
                         ELSE IF stream.conversationId # "none" THEN "messages" ELSE "done"]
  /\ UNCHANGED <<ingestVars, chat, content, render, convert, chunking, store>>

\* supabase.from('conversations').insert({ id: newConversationId, ... })
CreateConversation ==
  /\ stream.pc = "conversation"
  /\ \E convError \in BOOLEAN :
       IF convError
       THEN /\ stream' = [stream EXCEPT !.pc = "done"]
            /\ UNCHANGED store
       ELSE /\ stream' = [stream EXCEPT !.pc = "links", !.activeConversationId = "new"]
            /\ store' = [store EXCEPT !.conversations = @ \cup {"new"}]
  /\ UNCHANGED <<ingestVars, chat, content, render, convert, chunking>>

\* supabase.from('_ConversationToVideo').insert(links)
LinkVideos ==
  /\ stream.pc = "links"
  /\ \E linkError \in BOOLEAN :
       IF linkError
       THEN /\ stream' = [stream EXCEPT !.pc = "done"]
            /\ UNCHANGED store
       ELSE /\ stream' = [stream EXCEPT !.pc = "messages"]
            /\ store' = [store EXCEPT !.links = @ \cup {stream.activeConversationId}]
  /\ UNCHANGED <<ingestVars, chat, content, render, convert, chunking>>

\* supabase.from('messages').insert([user message, assistant message])
SaveMessages ==
  /\ stream.pc = "messages"
  /\ \E msgError \in BOOLEAN :
       IF msgError
       THEN /\ stream' = [stream EXCEPT !.pc = "done"]
            /\ UNCHANGED store
       ELSE /\ stream' = [stream EXCEPT !.pc = "touch"]
            /\ store' = [store EXCEPT
                           !.messages = @ \o
                             << Message(stream.activeConversationId, "user", "userQuery"),
                                Message(stream.activeConversationId, "assistant",
                                        stream.text) >>]
  /\ UNCHANGED <<ingestVars, chat, content, render, convert, chunking>>

\* supabase.from('conversations').update({ updated_at }).eq('id', activeConversationId)
TouchConversation ==
  /\ stream.pc = "touch"
  /\ \E updateError \in BOOLEAN :
       /\ stream' = [stream EXCEPT !.pc = "done"]
       /\ store' = IF updateError THEN store
                   ELSE [store EXCEPT !.touched = @ \cup {stream.activeConversationId}]
  /\ UNCHANGED <<ingestVars, chat, content, render, convert, chunking>>

InitGeneration ==
  /\ videos = <<>>
  /\ events = [v \in VideoIds |-> 0]
  /\ sends = [v \in VideoIds |-> 0]
  /\ requests = [q \in RequestCalls |-> IdleRequest]
  /\ retries = [c \in RetryCalls |-> IdleRetry]
  /\ runs = [r \in RunSlots |-> IdleRun]
  /\ collections = {}
  /\ documents = EmptyBag
  /\ faults = 0
  /\ chat = IdleChat
  /\ OthersIdle

NextGeneration ==
  \/ \E conversationId \in {"none", "c1"}, messages \in 1..2 :
       StreamText(conversationId, messages)
  \/ Token
  \/ StreamError
  \/ Cancel
  \/ StreamFinish
  \/ CreateConversation
  \/ LinkVideos
  \/ SaveMessages
  \/ TouchConversation

SpecGeneration == InitGeneration /\ [][NextGeneration]_vars

\* C20: rows are written to the store only after the generation stream of the request
\* has finished: while it streams, and after it failed or was cancelled mid-stream, no
\* conversation, link or message row of the request exists; the stored assistant message
\* is the whole answer, never a part of it, and is stored together with the user message.
C20_PersistOnlyAfterFinish ==
  /\ store # EmptyStore => stream.finished
  /\ stream.pc \in {"idle", "streaming", "failed", "cancelled"} =>
       ~stream.finished /\ store = EmptyStore
  /\ stream.finished => stream.text = stream.tokens
  /\ \A i \in 1..Len(store.messages) :
       /\ store.messages[i].role = "assistant" => store.messages[i].content = stream.tokens
       /\ store.messages[i].role = "assistant" =>
            i > 1 /\ store.messages[i - 1].role = "user"
       /\ store.messages[i].role = "user" =>
            i < Len(store.messages) /\ store.messages[i + 1].role = "assistant"

\* a first message: the conversation is created and both messages are stored after a
\* stream of three tokens has finished
C20_Witness ==
  /\ stream.pc = "done"
  /\ stream.finished
  /\ stream.tokens = 3
  /\ store.conversations = {"new"}
  /\ Len(store.messages) = 2
  /\ store.messages[2].content = 3

\* a stream that failed after two tokens
C20_WitnessFailed ==
  /\ stream.pc = "failed"
  /\ stream.tokens = 2
  /\ store = EmptyStore

(***************************************************************************)
(* SpecSystem: ingest runs of two videos while a chat request generates    *)
(* and persists its exchange.  The two rows were inserted by                *)
(* requestIngestion, which emitted one event for each.                      *)
(***************************************************************************)
InitSystem ==
  /\ videos = <<NewRow("y1"), NewRow("y2")>>
  /\ events = [v \in VideoIds |-> IF v <= 2 THEN 1 ELSE 0]
  /\ sends = [v \in VideoIds |-> IF v <= 2 THEN 1 ELSE 0]
  /\ requests = [q \in RequestCalls |-> IdleRequest]
  /\ retries = [c \in RetryCalls |-> IdleRetry]
  /\ runs = [r \in RunSlots |-> IdleRun]
  /\ collections = {}
  /\ documents = EmptyBag
  /\ faults = 0
  /\ chat = IdleChat
  /\ OthersIdle

NextSystem ==
  \/ \E r \in RunSlots, v \in VideoIds : RunStart(r, v)
  \/ \E r \in RunSlots : RunAgain(r)
  \/ \E r \in RunSlots : UpdateStatusToProcessing(r)
  \/ \E r \in RunSlots : FetchTranscript(r)
  \/ \E r \in RunSlots : ChunkTranscript(r)
  \/ \E r \in RunSlots : CreateCollection(r)
  \/ \E r \in RunSlots : EmbedChunk(r)
  \/ \E r \in RunSlots : UpdateVideoDetails(r)
  \/ \E r \in RunSlots : UpdateStatusToFailed(r)
  \/ \E conversationId \in {"none", "c1"} : StreamText(conversationId, 1)
  \/ Token
  \/ StreamError
  \/ Cancel
  \/ StreamFinish
  \/ CreateConversation
  \/ LinkVideos
  \/ SaveMessages
  \/ TouchConversation

SpecSystem == InitSystem /\ [][NextSystem]_vars

\* C21: a step of an ingest run for video v changes no Video row but v's, adds no
\* collection but video-v and no document outside video-v (and removes none), and
\* leaves the conversation, link and message rows alone; a step of a chat request
\* changes no Video row, no collection and no document.
C21_RunWritesOnlyItsVideo ==
  [][/\ \A r \in RunSlots :
          (runs[r].pc \in Executing /\ runs'[r] # runs[r])
            => LET v == runs[r].videoId
               IN  /\ Len(videos') = Len(videos)
                   /\ \A w \in Rows : w # v => videos'[w] = videos[w]
                   /\ collections \subseteq collections'
                   /\ collections' \ collections \subseteq {<<"video", v>>}
                   /\ \A d \in BagToSet(documents) \cup BagToSet(documents') :
                        CopiesIn(d, documents') # CopiesIn(d, documents)
                          => /\ CopiesIn(d, documents') > CopiesIn(d, documents)
                             /\ d.collection_name = <<"video", v>>
                             /\ d.path.videoId = v
                   /\ store' = store
     /\ (stream' # stream \/ store' # store)
          => /\ videos' = videos
             /\ collections' = collections
             /\ documents' = documents]_vars

\* both videos were ingested, one to READY and one to FAILED, and the exchange of a
\* chat request was stored meanwhile
C21_Witness ==
  /\ videos[1].status = "READY"
  /\ videos[2].status = "FAILED"
  /\ getCollectionName(1) \in collections
  /\ getCollectionName(2) \in collections
  /\ Len(store.messages) = 2

(***************************************************************************)
(* SpecIndex: ingest runs of two videos while a chat request scoped to     *)
(* them queries their collections.  The index answers a query from what it *)
(* holds: "not found" when the collection does not exist, else the         *)
(* documents of the collection, at most k of them.                         *)
(***************************************************************************)
RECURSIVE StoredSnippets(_, _)
StoredSnippets(videoId, j) ==
  IF j = 0 THEN <<>>
  ELSE LET snippet == Snippet(videoId, j, 1)
           doc == [collection_name |-> getCollectionName(videoId), path |-> snippet.path]
       IN  StoredSnippets(videoId, j - 1)
             \o (IF BagIn(doc, documents) THEN <<snippet>> ELSE <<>>)

\* client.queries.topSnippets({ collection_name: getCollectionName(videoId), query, k })
IndexTopSnippets(videoId, k) ==
  IF getCollectionName(videoId) \notin collections
  THEN [kind |-> "notfound", results |-> <<>>]
  ELSE LET stored == StoredSnippets(videoId, Cardinality(PassagePaths(videoId)))
       IN  [kind |-> "ok", results |-> SubSeq(stored, 1, Min(k, Len(stored)))]

ScopedQueryReturn(j) ==
  /\ chat.pc = "loop"
  /\ j \in 1..Len(chat.query)
  /\ chat.query[j] = "inflight"
  /\ LET response == IndexTopSnippets(chat.scopedVideoIds[j], chat.chunksPerVideo)
     IN  chat' = IF response.kind \in {"ok", "noresults"} \/ Caught(response)
                 THEN [chat EXCEPT !.query[j] = "completed",
                                   !.responses = Append(@, [video |-> j, response |-> response]),
                                   !.allResults = PushResults(@, response)]
                 ELSE [chat EXCEPT !.pc = "responded", !.status = 500,
                                   !.query[j] = "completed",
                                   !.responses = Append(@, [video |-> j, response |-> response])]
  /\ UNCHANGED <<ingestVars, otherVars>>

\* the two videos requested: one of them may be a video without transcript segments
InitIndex ==
  /\ \E sources \in {<<"y1", "y2">>, <<"y0", "y1">>} :
       videos = <<NewRow(sources[1]), NewRow(sources[2])>>
  /\ events = [v \in VideoIds |-> IF v <= 2 THEN 1 ELSE 0]
  /\ sends = [v \in VideoIds |-> IF v <= 2 THEN 1 ELSE 0]
  /\ requests = [q \in RequestCalls |-> IdleRequest]
  /\ retries = [c \in RetryCalls |-> IdleRetry]
  /\ runs = [r \in RunSlots |-> IdleRun]
  /\ collections = {}
  /\ documents = EmptyBag
  /\ faults = 0
  /\ chat = IdleChat
  /\ OthersIdle

NextIndex ==
  \/ \E r \in RunSlots, v \in VideoIds : RunStart(r, v)
  \/ \E r \in RunSlots : RunAgain(r)
  \/ \E r \in RunSlots : UpdateStatusToProcessing(r)
  \/ \E r \in RunSlots : FetchTranscript(r)
  \/ \E r \in RunSlots : ChunkTranscript(r)
  \/ \E r \in RunSlots : CreateCollection(r)
  \/ \E r \in RunSlots : EmbedChunk(r)
  \/ \E r \in RunSlots : UpdateVideoDetails(r)
  \/ \E r \in RunSlots : UpdateStatusToFailed(r)
  \/ \E n \in 1..2 : Receive("chat", n, TRUE)
  \/ \E j \in 1..2 : QueryIssue(j)
  \/ \E j \in 1..2 : ScopedQueryReturn(j)
  \/ Assemble

SpecIndex == InitIndex /\ [][NextIndex]_vars

\* the create-collection step of a run has been executed: it succeeded or it raised
ExecutedCreateCollection(run) ==
  \/ run.pc \in {"embed", "details"}
  \/ run.pc = "done"
  \/ run.failedStep \in 4..6

\* C22 as stated: whenever a run for v has reached (and executed) the create-collection
\* step, the collection video-v exists.
C22_ExistsIffStepReached ==
  \A r \in RunSlots :
    ExecutedCreateCollection(runs[r]) => <<"video", runs[r].videoId>> \in collections

\* C22 as amended: the collection video-v comes to exist exactly in a create-collection
\* step of a run for v that does not raise, after every such step it exists, and it is
\* never removed; a query of a scoped video whose collection does not exist gets
\* "not found", adds no result and leaves the request in progress with no error status.
C22_ExistsIffStepSucceeded ==
  [][/\ collections \subseteq collections'
     /\ \A v \in Rows :
          (<<"video", v>> \in collections' /\ <<"video", v>> \notin collections)
            => \E r \in RunSlots : /\ runs[r].videoId = v
                                   /\ runs[r].pc = "collection"
                                   /\ runs'[r].pc = "embed"
     /\ \A r \in RunSlots :
          (runs[r].pc = "collection" /\ runs'[r].pc = "embed")
            => <<"video", runs[r].videoId>> \in collections'
     /\ \A r \in RunSlots :
          runs[r].pc \in {"embed", "details"} =>
            <<"video", runs[r].videoId>> \in collections
     /\ \A j \in 1..Len(chat.query) :
          (chat.query[j] = "inflight" /\ chat'.query[j] = "completed"
             /\ <<"video", chat.scopedVideoIds[j]>> \notin collections)
            => /\ chat'.responses[Len(chat'.responses)].response.kind = "notfound"
               /\ chat'.allResults = chat.allResults
               /\ chat'.pc = "loop"
               /\ chat'.status = 0]_vars

\* the query of video 1 found no collection, the query of video 2 found the collection
\* its run had created, and the request went on to generation; meanwhile the run of
\* video 1 raised in its create-collection step
C22_Witness ==
  /\ chat.pc = "generate"
  /\ Len(chat.responses) = 2
  /\ chat.responses[1].response.kind = "notfound"
  /\ chat.responses[2].response.kind = "ok"
  /\ Len(chat.responses[2].response.results) = 1
  /\ <<"video", 1>> \notin collections
  /\ \E r \in RunSlots : runs[r].videoId = 1 /\ runs[r].failedStep = 4

(***************************************************************************)
(* Further claims about retrieval (SpecRetrieval).                         *)
(***************************************************************************)
\* C23: when more than one video is scoped in a chat request, the number of passages
\* requested over all scoped videos, n * k(n), is at most 15.
C23_TotalRequestedAtMost15 ==
  (chat.handler = "chat" /\ chat.pc \in {"loop", "generate"} /\ ScopeSize > 1)
    => ScopeSize * chat.chunksPerVideo <= 15

(***************************************************************************)
(* Further claims about ingestion (Spec).                                  *)
(***************************************************************************)
\* C24: a Video's status becomes FAILED only in the catch block of an ingest run for
\* it, in which one of the steps 2..6 raised; an ingestion request, a retry and a
\* failure of step 1 never set FAILED; every FAILED Video has a failure_reason.
C24_FailedOnlyByCatch ==
  [][\A v \in 1..Len(videos') :
       /\ (videos'[v].status = "FAILED" /\ (v \notin Rows \/ videos[v].status # "FAILED"))
            => \E r \in RunSlots :
                 /\ runs[r].pc = "catch"
                 /\ runs[r].videoId = v
                 /\ runs[r].failedStep \in 2..6
                 /\ runs'[r].pc = "thrown"
                 /\ videos'[v].failure_reason = runs[r].errorMessage
       /\ videos'[v].status = "FAILED" => videos'[v].failure_reason # NoReason]_vars

\* the last step raised: the Video, whose index is complete, is FAILED with that error
C24_Witness ==
  \E r \in RunSlots :
    /\ runs[r].pc = "thrown"
    /\ runs[r].failedStep = 6
    /\ videos[runs[r].videoId].status = "FAILED"
    /\ videos[runs[r].videoId].failure_reason = "Failed to update video status"

(***************************************************************************)
(* Further claims about chunking (SpecChunker).                            *)
(***************************************************************************)
\* C25: the start time of every passage is the offset of its first segment and its
\* end time is the offset plus the duration of its last segment (both ms -> s); so
\* start <= end for every passage whose segments have non-negative durations and
\* non-decreasing offsets.
C25_PassageTimes ==
  chunking.pc # "input" =>
    LET n == Len(chunking.transcript)
        g == chunking.chunkSize
        chunks == chunking.chunks
    IN  \A k \in 1..Len(chunks) :
          LET first == (k - 1) * g + 1
              last == Min(k * g, n)
          IN  /\ chunks[k].startTime = chunking.transcript[first].offset
              /\ chunks[k].endTime = chunking.transcript[last].offset
                                       + chunking.transcript[last].duration
              /\ (\A i \in first..last :
                    /\ chunking.transcript[i].duration >= 0
                    /\ i < last =>
                         chunking.transcript[i].offset <= chunking.transcript[i + 1].offset)
                   => chunks[k].startTime <= chunks[k].endTime

\* three extracted segments in groups of two: the first passage runs from 0 s to 3 s,
\* the second is one segment of no duration
C25_Witness ==
  /\ chunking.pc = "chunked"
  /\ chunking.chunkSize = 2
  /\ Len(chunking.transcript) = 3
  /\ Len(chunking.chunks) = 2
  /\ chunking.transcript[1].duration = 0
  /\ chunking.transcript[2].duration = 1500
  /\ chunking.chunks[1].startTime = 0
  /\ chunking.chunks[1].endTime = 3000
  /\ chunking.chunks[2].startTime = chunking.chunks[2].endTime

(***************************************************************************)
(* Claims about runs on a transcript without segments (SpecIndex).         *)
(***************************************************************************)
NoSegments(run) == run.pc # "idle" /\ Len(Transcript(run.youtubeId)) = 0

\* C26 as stated: a run whose transcript has zero segments fails in the chunk step
\* (step 3) with the empty-transcript error, which becomes the failure_reason.
C26_FailsInChunkStep ==
  \A r \in RunSlots :
    (NoSegments(runs[r]) /\ runs[r].pc = "thrown" /\ runs[r].failedStep > 1)
      => /\ runs[r].failedStep = 3
         /\ runs[r].errorMessage = "Cannot chunk empty transcript"
         /\ videos[runs[r].videoId].failure_reason = "Cannot chunk empty transcript"

\* C26 as amended: a run whose transcript has zero segments fails in the fetch step
\* (step 2) with the adapter's error and never reaches the chunk step; the Video
\* becomes FAILED with that error's message, and it never has a collection or a document.
C26_FailsInFetchStep ==
  \A r \in RunSlots :
    NoSegments(runs[r]) =>
      LET v == runs[r].videoId
      IN  /\ runs[r].pc \in {"processing", "fetch", "catch", "thrown"}
          /\ runs[r].pc = "catch" =>
               /\ runs[r].failedStep = 2
               /\ runs[r].errorMessage = "Failed to fetch transcript"
          /\ (runs[r].pc = "thrown" /\ runs[r].failedStep > 1) =>
               /\ runs[r].failedStep = 2
               /\ runs[r].errorMessage = "Failed to fetch transcript"
               /\ videos[v].status = "FAILED"
               /\ videos[v].failure_reason = "Failed to fetch transcript"
          /\ getCollectionName(v) \notin collections
          /\ \A d \in BagToSet(documents) : d.collection_name # getCollectionName(v)

\* the run of the video without segments has failed, with no failure injected, while
\* the other video was ingested
C26_Witness ==
  /\ faults = 0
  /\ \E r \in RunSlots :
       /\ NoSegments(runs[r])
       /\ runs[r].pc = "thrown"
       /\ videos[runs[r].videoId].status = "FAILED"
  /\ \E w \in Rows : videos[w].status = "READY"

(***************************************************************************)
(* Claims about the status and the index (Spec).                           *)
(***************************************************************************)
\* C27: whenever a Video is READY, its collection exists and holds a document for every
\* passage of its transcript's chunking, whatever failures and re-runs came before.
C27_ReadyMeansIndexed ==
  \A v \in Rows :
    videos[v].status = "READY" =>
      /\ <<"video", v>> \in collections
      /\ \A p \in PassagePaths(v) :
           BagIn([collection_name |-> <<"video", v>>, path |-> p], documents)

\* a Video of two passages made READY by the second attempt of a run whose first
\* attempt failed
C27_Witness ==
  \E r \in RunSlots :
    /\ runs[r].pc = "done"
    /\ runs[r].attempt = 2
    /\ Len(runs[r].chunks) = 2
    /\ videos[runs[r].videoId].status = "READY"
    /\ faults = 1

\* C28: a Video whose status is QUEUED, PROCESSING or READY has an empty
\* failure_reason, also when it failed earlier and was run again.
C28_ReasonOnlyWhileFailed ==
  \A v \in Rows :
    videos[v].status # "FAILED" => videos[v].failure_reason = NoReason

(***************************************************************************)
(* SpecSend: Spec, with an inngest.send that may throw (a failure that is  *)
(* not counted in faults).  The exception is caught by the catch block of  *)
(* the server action, which returns an error message; the row written      *)
(* before the send stays as it is.                                         *)
(***************************************************************************)
\* requestIngestion: await inngest.send(...) throws; catch: return { message: "Error: ..." }
RequestSendFails(q) ==
  LET req == requests[q]
  IN  /\ req.pc = "send"
      /\ requests' = [requests EXCEPT ![q] = [req EXCEPT !.pc = "done", !.message = "Error"]]
      /\ UNCHANGED <<videos, events, sends, retries, runs, collections, documents, faults,
                     chat, otherVars>>

\* retryFailedVideo: await inngest.send(...) throws; catch: return { success: false, ... }
RetrySendFails(c) ==
  /\ retries[c].pc = "send"
  /\ retries' = [retries EXCEPT ![c] = [@ EXCEPT !.pc = "done"]]
  /\ UNCHANGED <<videos, events, sends, requests, runs, collections, documents, faults,
                 chat, otherVars>>

InitSend == Init

NextSend ==
  \/ \E q \in DOMAIN requests, y \in YoutubeIds : RequestSingleInsert(q, y)
  \/ \E q \in DOMAIN requests : RequestBatchBegin(q)
  \/ \E q \in DOMAIN requests : RequestBatchSelect(q)
  \/ \E q \in DOMAIN requests : RequestBatchInsert(q)
  \/ \E q \in DOMAIN requests : RequestSend(q)
  \/ \E q \in DOMAIN requests : RequestSendFails(q)
  \/ \E c \in RetryCalls, v \in VideoIds : RetrySelect(c, v)
  \/ \E c \in RetryCalls : RetryUpdate(c)
  \/ \E c \in RetryCalls : RetrySend(c)
  \/ \E c \in RetryCalls : RetrySendFails(c)
  \/ \E r \in RunSlots, v \in VideoIds : RunStart(r, v)
  \/ \E r \in RunSlots : RunAgain(r)
  \/ \E r \in RunSlots : UpdateStatusToProcessing(r)
  \/ \E r \in RunSlots : FetchTranscript(r)
  \/ \E r \in RunSlots : ChunkTranscript(r)
  \/ \E r \in RunSlots : CreateCollection(r)
  \/ \E r \in RunSlots : EmbedChunk(r)
  \/ \E r \in RunSlots : UpdateVideoDetails(r)
  \/ \E r \in RunSlots : UpdateStatusToFailed(r)

SpecSend == InitSend /\ [][NextSend]_vars

\* an event for v is about to be sent, is waiting for the runner, or is being run
EventOutstanding(v) ==
  \/ events[v] > 0
  \/ \E q \in DOMAIN requests : requests[q].pc = "send" /\ requests[q].newVideo = v
  \/ \E c \in RetryCalls : retries[c].pc = "send" /\ retries[c].videoId = v
  \/ \E r \in RunSlots : runs[r].videoId = v /\ runs[r].pc \in Executing
  \/ \E r \in RunSlots : /\ runs[r].videoId = v /\ runs[r].pc = "thrown"
                         /\ runs[r].attempt < MaxAttempts

\* C29: no Video is left QUEUED without an ingestion event that will move it on, even
\* when emitting the event fails after the row was written.
C29_NoQueuedWithoutEvent ==
  \A v \in Rows : videos[v].status = "QUEUED" => EventOutstanding(v)

(***************************************************************************)
(* Further claims about generation and persistence (SpecGeneration).       *)
(***************************************************************************)
\* the conversation of the request: the one it named, or the one created for it
PersistedIn(conversationId) ==
  /\ conversationId # "none"
  /\ store.messages = << Message(conversationId, "user", "userQuery"),
                         Message(conversationId, "assistant", stream.tokens) >>
  /\ stream.conversationId = "none" =>
       conversationId \in store.conversations /\ conversationId \in store.links

\* C30: every exchange whose generation finishes is persisted, whatever the length of
\* the message history and whether or not the request carried a conversation id: when
\* the stream finishes, onFinish goes on to write the exchange (creating and linking a
\* conversation first when the request named none), and once its inserts have succeeded
\* the store holds exactly one user message with the query and one assistant message
\* with the full answer, both in that conversation.
C30_FinishedExchangePersisted ==
  [][/\ (stream.pc = "streaming" /\ stream'.finished)
          => stream'.pc \in {"conversation", "messages"}
     /\ stream.pc = "touch"
          => PersistedIn(IF stream.conversationId # "none"
                         THEN stream.conversationId ELSE "new")]_vars

====
